---- MODULE Spec2Model ----
(***************************************************************************)
(* Model of the ingestion-and-retrieval core of the AI engine:             *)
(*   services/ai-engine/src/services/rag.py   (RAGService, the store)      *)
(*   services/ai-engine/initial_sync.py       (bulk import, checkpointed)  *)
(*   services/ai-engine/src/main.py           (chat, /sync-logs)           *)
(*                                                                         *)
(* Python None is the string "None"; an absent JSON key is "absent".       *)
(* Texts (query, reply, names, messages) are sequences of characters.      *)
(***************************************************************************)
EXTENDS Integers, Sequences, FiniteSets, Bags, TLC

VARIABLES
    log,          \* messages.log: sequence of lines (an input, unchanged while the runs are observed)
    store,        \* the ChromaDB collection: bag of stored documents
    ckpt,         \* data/initial_sync_checkpoint.json as persisted
    sync_state,   \* data/sync_state.json as persisted
    bulk,         \* locals and position of run_initial_sync
    sync,         \* locals and position of the sync_logs handler
    flushed,      \* history: both persisted files as of the last successful flush of the run in flight
    idem,         \* history: document count when a from-zero sync run reached end of input
    user_mapping, \* data/user-mapping.json as loaded at startup: ordered name -> servers
    srch,         \* the last RAGService.search call and its outcome
    chat,         \* the last /chat request and what it passed on
    parse,        \* a line and what each of the two parsers made of it
    ret,          \* the last add_documents_batch call: what it returned, counts around it
    reqs,         \* the /log requests in flight and what they returned
    file,         \* a checkpoint file's raw content and what loading it led to
    handlers,     \* the /sync-logs requests the server is serving, one per slot
    after_reset,  \* history: /sync-logs/reset has returned and no sync run has started since
    rag           \* a RAGService instance: its fields and its last call

ingest_vars == <<log, ckpt, sync_state, bulk, sync, flushed, idem>>
serve_vars == <<handlers, after_reset, rag>>
call_vars == <<parse, ret, reqs, file, serve_vars>>
vars == <<log, store, ckpt, sync_state, bulk, sync, flushed, idem, user_mapping, srch, chat,
          parse, ret, reqs, file, handlers, after_reset, rag>>

None == "None"
Absent == "absent"

\* ---------------------------------------------------------------- bounds
MaxLogLen == 2
MaxBatchSize == 2
MaxLimit == 1
MaxImported == 3
MaxK == 2
MaxDir == 2
MaxMsgLen == 2
MaxLiveLog == 3

Min(a, b) == IF a <= b THEN a ELSE b

\* ---------------------------------------------------------------- log lines
\* Texts are sequences of tokens: a character, or one of the character runs
\* the bracketed formats are made of.
SEPR == "],\\n [reply: "
SEPG == "],\\n [Google result: "
NL == "\\n"
LF == "\n"
QUOTE == "\""
BANNER == "Added to conversation log"

\* a well-formed end of a bracketed line: ]\n\n"
StdTail == <<"]", NL, NL, QUOTE>>

\* A line of messages.log after line.strip(): its shape and the fields the
\* writer put into it. fmt is the shape of the line's frame: "json" is {...},
\* "tsjson" is <ts> - {...}, "legacy" and "google" are
\* <ts> - "[User: @name],\n [Query: <body>, "badjson" is {...} that json.loads
\* rejects, "blank" is whitespace, "other" is anything else.
Line(fmt, prefix, user, username, query, reply, ts) ==
    [fmt |-> fmt, prefix |-> prefix, user |-> user, username |-> username,
     query |-> query, reply |-> reply, ts |-> ts,
     segments |-> <<>>, tail |-> IF fmt = "legacy" THEN StdTail ELSE <<>>]

\* a bracketed line: zero or more [Google result: ...] segments between the
\* query and the reply, and whatever follows the reply text
BracketLine(prefix, username, query, segments, reply, tail) ==
    [fmt |-> IF segments = <<>> THEN "legacy" ELSE "google",
     prefix |-> prefix, user |-> Absent, username |-> username,
     query |-> query, reply |-> reply, ts |-> Absent,
     segments |-> segments, tail |-> tail]

\* {"query":"hi","reply":"hello","user":"u1","username":"alice"}
LineJson == Line("json", None, "u1", "alice", <<"h", "i">>, <<"h", "e", "y">>, Absent)
\* 2024-01-01T00:00:00Z - {"query":"bye","reply":"later","user":"u2","username":"bob"}
LineTsJson == Line("tsjson", "t0", "u2", "bob", <<"b", "y", "e">>, <<"o", "k">>, Absent)
\* 2024-07-26T15:06:28.594Z - "[User: @carol],\n [Query: yo],\n [reply: hm]\n\n"
LineLegacy == Line("legacy", "t1", Absent, "carol", <<"y", "o">>, <<"h", "m">>, Absent)
\* garbage line
LineGarbage == Line("other", None, Absent, Absent, <<>>, <<>>, Absent)

Lines == {LineJson, LineTsJson, LineLegacy, LineGarbage}

\* f"User {username} asked: {query}\nBot replied: {reply}"
Content(username, query, reply) == <<username, query, reply>>

Record(content, user, username, timestamp, provider, source) ==
    [content |-> content,
     metadata |-> [user |-> user, username |-> username, timestamp |-> timestamp,
                   provider |-> provider, source |-> source]]

\* the parsers' "return None"
NotParseable == [parsed |-> FALSE]

\* data.get(key, default)
Get(value, default) == IF value = Absent THEN default ELSE value

\* the text after "[Query: " of a bracketed line, as written
RECURSIVE SegmentsText(_)
SegmentsText(segments) ==
    IF segments = <<>> THEN <<>>
    ELSE <<SEPG>> \o Head(segments) \o SegmentsText(Tail(segments))

Body(line) == line.query \o SegmentsText(line.segments) \o <<SEPR>> \o line.reply \o line.tail

\* "Added to conversation log" in line
HasBanner(line) ==
    \/ line.username = BANNER
    \/ \E i \in 1..Len(Body(line)) : Body(line)[i] = BANNER

\* number of characters of a token, escapes replaced
TokLen(t) ==
    IF t = SEPR THEN 12 ELSE IF t = SEPG THEN 20 ELSE IF t = BANNER THEN 25 ELSE 1

\* len(text)
RECURSIVE TextLen(_)
TextLen(text) == IF text = <<>> THEN 0 ELSE TokLen(Head(text)) + TextLen(Tail(text))

\* text.replace('\\n', '\n').strip()
Whitespace == {" ", LF}
Unescape(text) == [i \in 1..Len(text) |-> IF text[i] = NL THEN LF ELSE text[i]]
Strip(text) ==
    LET keep == {i \in 1..Len(text) : text[i] \notin Whitespace}
    IN IF keep = {} THEN <<>>
       ELSE SubSeq(text, CHOOSE i \in keep : \A j \in keep : i <= j,
                         CHOOSE i \in keep : \A j \in keep : i >= j)
Clean(text) == Strip(Unescape(text))

\* the least element of a non-empty set of positions (a lazy group stops at
\* the first position from which the rest of the pattern matches)
First(S) == CHOOSE i \in S : \A j \in S : i <= j

NoMatch == [matched |-> FALSE, query |-> <<>>, reply |-> <<>>]

\* a token that begins with the character "]"
StartsWithBracket(t) == t \in {"]", SEPR, SEPG}

\* (?:\\n)*"?$
IsTail(s) ==
    \E n \in 0..Len(s) :
        /\ \A i \in 1..n : s[i] = NL
        /\ Len(s) = n \/ (Len(s) = n + 1 /\ s[n + 1] = QUOTE)

\* initial_sync.py old_match on the body:
\* (.*?)\],\\n \[reply: (.*?)\](?:\\n)*"?$ with re.DOTALL
old_match(body) ==
    LET ends(i) == {j \in (i + 1)..Len(body) :
                       body[j] = "]" /\ IsTail(SubSeq(body, j + 1, Len(body)))}
        starts == {i \in 1..Len(body) : body[i] = SEPR /\ ends(i) # {}}
    IN IF starts = {} THEN NoMatch
       ELSE LET i == First(starts)
                j == First(ends(i))
            IN [matched |-> TRUE, query |-> SubSeq(body, 1, i - 1),
                reply |-> SubSeq(body, i + 1, j - 1)]

\* initial_sync.py google_match on the body:
\* (.*?)\],\\n \[Google result: .*?\],\\n \[reply: (.*?)\] with re.DOTALL, no $
google_match(body) ==
    LET ends(k) == {j \in (k + 1)..Len(body) : StartsWithBracket(body[j])}
        replies(i) == {k \in (i + 1)..Len(body) : body[k] = SEPR /\ ends(k) # {}}
        starts == {i \in 1..Len(body) : body[i] = SEPG /\ replies(i) # {}}
    IN IF starts = {} THEN NoMatch
       ELSE LET i == First(starts)
                k == First(replies(i))
                j == First(ends(k))
            IN [matched |-> TRUE, query |-> SubSeq(body, 1, i - 1),
                reply |-> SubSeq(body, k + 1, j - 1)]

\* main.py old_match on the body: ([^\]]*)\],\\n \[reply: ([^\]]*)\]
main_old_match(body) ==
    LET brackets == {i \in 1..Len(body) : StartsWithBracket(body[i])}
    IN IF brackets = {} THEN NoMatch
       ELSE LET i == First(brackets)
                ends == {j \in brackets : j > i}
            IN IF body[i] # SEPR \/ ends = {} THEN NoMatch
               ELSE [matched |-> TRUE, query |-> SubSeq(body, 1, i - 1),
                     reply |-> SubSeq(body, i + 1, First(ends) - 1)]

\* "if len(query) < 2 or len(reply) < 2: return None"
TooShort(query, reply) == TextLen(query) < 2 \/ TextLen(reply) < 2

\* the record a legacy branch builds from its groups
legacy_record(line, m, provider, source) ==
    Record(Content(line.username, Clean(m.query), Clean(m.reply)),
           "unknown", line.username, line.prefix, provider, source)

\* initial_sync.py parse_log_line: blank and banner lines first; formats 1
\* and 2 need query, reply and user; then old_match, then google_match, each
\* rejecting a cleaned query or reply shorter than 2 characters.
parse_log_line(line) ==
    IF line.fmt = "blank" \/ HasBanner(line) THEN NotParseable
    ELSE IF line.fmt \in {"json", "tsjson"}
    THEN IF line.user # Absent
         THEN Record(Content(Get(line.username, "unknown"), line.query, line.reply),
                     line.user, Get(line.username, "unknown"),
                     Get(line.ts, None), "unknown", "initial_sync")
         ELSE NotParseable
    ELSE IF line.fmt \in {"legacy", "google"} /\ line.prefix # None
    THEN LET o == old_match(Body(line))
             g == google_match(Body(line))
         IN IF o.matched
            THEN IF TooShort(Clean(o.query), Clean(o.reply)) THEN NotParseable
                 ELSE legacy_record(line, o, "legacy", "initial_sync")
            ELSE IF g.matched
            THEN IF TooShort(Clean(g.query), Clean(g.reply)) THEN NotParseable
                 ELSE legacy_record(line, g, "legacy_google", "initial_sync")
            ELSE NotParseable
    ELSE NotParseable

\* main.py parse_log_line: only the timestamp-prefixed object (query and reply
\* suffice) and the bracketed form with the reply right after the query; no
\* banner test, no length test; timestamp defaults to the prefix.
main_parse_log_line(line) ==
    IF line.fmt = "tsjson"
    THEN Record(Content(Get(line.username, "unknown"), line.query, line.reply),
                Get(line.user, "unknown"), Get(line.username, "unknown"),
                Get(line.ts, line.prefix), "unknown", "sync")
    ELSE IF line.fmt \in {"legacy", "google"} /\ line.prefix # None
    THEN LET m == main_old_match(Body(line))
         IN IF m.matched THEN legacy_record(line, m, "legacy", "sync")
            ELSE NotParseable
    ELSE NotParseable

\* no line parsed yet
NoParse == [called |-> FALSE, line |-> LineGarbage,
            bulk |-> NotParseable, sync |-> NotParseable]

\* both parsers applied to the line at hand
ParseLine ==
    /\ ~parse.called
    /\ parse' = [called |-> TRUE, line |-> parse.line,
                 bulk |-> parse_log_line(parse.line),
                 sync |-> main_parse_log_line(parse.line)]
    /\ UNCHANGED <<log, store, ckpt, sync_state, bulk, sync, flushed, idem,
                   user_mapping, srch, chat, ret, reqs, file, serve_vars>>

\* ---------------------------------------------------------------- the store
\* an id that also depends on the owner (what C18 rules out)
doc_id_with_user(content, metadata) == <<content, metadata.timestamp, metadata.user>>

\* hashlib.md5(f"{content}{metadata.get('timestamp', '')}")
doc_id(content, metadata) == <<content, metadata.timestamp>>

Doc(rec) == [id |-> doc_id(rec.content, rec.metadata),
             content |-> rec.content, metadata |-> rec.metadata]

Ids(coll) == {d.id : d \in BagToSet(coll)}

\* a collection that inserts every record, known id or not (what C3 rules out)
RECURSIVE collection_add_nodedup(_, _)
collection_add_nodedup(coll, docs) ==
    IF docs = <<>> THEN coll
    ELSE collection_add_nodedup(coll (+) SetToBag({Head(docs)}), Tail(docs))

\* collection.add(ids, embeddings, documents, metadatas): a record whose id is
\* already in the collection is ignored.
RECURSIVE collection_add(_, _)
collection_add(coll, docs) ==
    IF docs = <<>> THEN coll
    ELSE collection_add(IF Head(docs).id \in Ids(coll) THEN coll
                        ELSE coll (+) SetToBag({Head(docs)}),
                        Tail(docs))

add_document(coll, rec) == collection_add(coll, <<Doc(rec)>>)

add_documents_batch(coll, documents) ==
    collection_add(coll, [i \in 1..Len(documents) |-> Doc(documents[i])])

get_document_count(coll) == BagCardinality(coll)

\* ---------------------------------------------------------------- search
\* Python truthiness of an optional string
Falsy(x) == x \in {None, ""}

\* a where clause that drops the filter (what C2 rules out)
where_clause_dropped(user_filter) == None

\* "where_clause = None; if user_filter: where_clause = {'user': user_filter}"
where_clause(user_filter) == IF Falsy(user_filter) THEN None ELSE user_filter

\* k passed on as it is, without the clamp (what C9 rules out)
n_results_unclamped(k, count) == k

\* "n_results=min(k, self.collection.count())"
n_results(k, count) == Min(k, count)

\* the documents a where clause admits
Matching(coll, where) ==
    {d \in BagToSet(coll) : where = None \/ d.metadata.user = where}

\* collection.query(query_embeddings, n_results, where): the n nearest admitted
\* documents, whichever they are for the embedding at hand.  Asking for no
\* neighbour raises; asking for more than the collection holds raises or is
\* cut down, depending on the index.
collection_query(coll, where, n) ==
    LET M == Matching(coll, where)
        top(m) == {[raised |-> FALSE, requested |-> n, results |-> R] :
                     R \in {X \in SUBSET M : Cardinality(X) = Min(m, Cardinality(M))}}
        raise == {[raised |-> TRUE, requested |-> n, results |-> {}]}
    IN IF n <= 0 THEN raise
       ELSE IF n > BagCardinality(coll) THEN raise \cup top(BagCardinality(coll))
       ELSE top(n)

\* RAGService.search: the outcomes of one call
search(coll, query, k, user_filter) ==
    IF get_document_count(coll) = 0
    THEN {[raised |-> FALSE, requested |-> 0, results |-> {}]}
    ELSE collection_query(coll, where_clause(user_filter),
                          n_results(k, get_document_count(coll)))

NoSearch == [called |-> FALSE, k |-> 0, user_filter |-> None, count |-> 0,
             raised |-> FALSE, requested |-> 0, results |-> {}]

\* ---------------------------------------------------------------- checkpoints
\* {"last_line": 0, "imported": 0, "started_at": None}: no "completed_at" key
ZeroCheckpoint == [last_line |-> 0, imported |-> 0, completed_at |-> None]
\* {"last_line": 0, "last_sync": None}
ZeroSyncState == [last_line |-> 0]

Persisted == [ckpt |-> ckpt, sync_state |-> sync_state]

\* ---------------------------------------------------------------- checkpoint files
\* A JSON value found under a key: an integer, a string, null, or no such key.
JInt(n) == [type |-> "int", n |-> n]
JStr == [type |-> "str", n |-> 0]
JNull == [type |-> "null", n |-> 0]
JAbsent == [type |-> "absent", n |-> 0]

\* What a checkpoint file holds. kind "missing": no file; "unreadable": open
\* or json.load raises (not JSON, cut off, not text); "null", "list",
\* "number": a JSON document that is no object; "object": a JSON object with
\* the values found under "last_line" and "imported".
FileContent(kind, last_line, imported) ==
    [kind |-> kind, last_line |-> last_line, imported |-> imported]

\* {"last_line": 0, "imported": 0, ...}
ZeroFile == FileContent("object", JInt(0), JInt(0))

\* load_checkpoint / load_sync_state: json.load's value, or the default when
\* the file does not exist or reading it raised
load_checkpoint(content) ==
    IF content.kind \in {"missing", "unreadable"} THEN ZeroFile ELSE content

\* checkpoint.get(key, 0)
GetInt(value) == IF value.type = "absent" THEN JInt(0) ELSE value

\* run_initial_sync on the loaded value: checkpoint.get needs a dict,
\* "start_line > 0" and "total_imported + imported" need numbers
bulk_start_crashes(loaded) ==
    \/ loaded.kind # "object"
    \/ GetInt(loaded.last_line).type # "int"
    \/ GetInt(loaded.imported).type # "int"

\* sync_logs on the loaded value: sync_state.get needs a dict unless
\* force_full, range(start_line) needs an integer, and the final
\* sync_state["last_line"] = current_line needs a dict
sync_start_crashes(force_full, loaded) ==
    \/ loaded.kind # "object"
    \/ ~force_full /\ GetInt(loaded.last_line).type # "int"

NoFile == [content |-> FileContent("missing", JAbsent, JAbsent), loader |-> "none",
           loaded |-> ZeroFile, crashed |-> FALSE]

\* initial_sync.py started on the file
LoadCheckpoint ==
    /\ file.loader = "none"
    /\ file' = [file EXCEPT !.loader = "bulk",
                            !.loaded = load_checkpoint(file.content),
                            !.crashed = bulk_start_crashes(load_checkpoint(file.content))]
    /\ UNCHANGED <<log, store, ckpt, sync_state, bulk, sync, flushed, idem,
                   user_mapping, srch, chat, parse, ret, reqs, serve_vars>>

\* POST /sync-logs served on the file
LoadSyncState(force_full) ==
    /\ file.loader = "none"
    /\ file' = [file EXCEPT !.loader = IF force_full THEN "sync_full" ELSE "sync",
                            !.loaded = load_checkpoint(file.content),
                            !.crashed = sync_start_crashes(force_full,
                                                          load_checkpoint(file.content))]
    /\ UNCHANGED <<log, store, ckpt, sync_state, bulk, sync, flushed, idem,
                   user_mapping, srch, chat, parse, ret, reqs, serve_vars>>

\* ---------------------------------------------------------------- bulk import
\* run_initial_sync: locals of the run; limit 0 is "no --limit" (falsy).
BulkIdle ==
    [pc |-> "idle", batch_size |-> 1, limit |-> 0,
     start_line |-> 0, total_imported |-> 0, current_line |-> 0,
     imported |-> 0, skipped |-> 0, batch |-> <<>>, added |-> 0, fresh |-> FALSE,
     brk |-> FALSE]
SyncIdle ==
    [pc |-> "idle", force_full |-> FALSE, batch_size |-> 1, max_entries |-> 0,
     start_line |-> 0, current_line |-> 0, imported |-> 0, skipped |-> 0,
     processed |-> 0, batch |-> <<>>, brk |-> FALSE, fresh |-> FALSE]

BulkRunning == bulk.pc \in {"loop", "parse", "flush", "commit", "final", "save"}
SyncRunning == sync.pc \in {"loop", "flush", "rest"}

NoIdem == [set |-> FALSE, count |-> 0, again |-> FALSE]

\* checkpoint["last_line"] = current_line; checkpoint["imported"] = total_imported + imported
\* on the dict the run loaded: its other keys stay as they were
checkpoint_of(b, c) ==
    [c EXCEPT !.last_line = b.current_line, !.imported = b.total_imported + b.imported]

\* datetime.now().isoformat()
Now == "now"

\* a final checkpoint without the completion time (what C23 rules out)
final_checkpoint_unstamped(b, c) == checkpoint_of(b, c)

\* the final checkpoint: position, count and checkpoint["completed_at"]
final_checkpoint(b, c) == [checkpoint_of(b, c) EXCEPT !.completed_at = Now]

\* the checkpoint file after a full batch was added (save_checkpoint)
checkpoint_after_flush(b, c) == checkpoint_of(b, c)

\* the checkpoint file after the KeyboardInterrupt handler ran
checkpoint_on_interrupt(b, c) == checkpoint_of(b, c)

\* a failure path that saves like the interrupt path (what C6 rules out)
checkpoint_on_error_saving(b, c) == checkpoint_of(b, c)

\* the checkpoint file when add_documents_batch raises: the try block handles
\* KeyboardInterrupt only, the exception leaves the script, nothing is saved
checkpoint_on_error(b, c) == c

\* "if limit and imported >= limit: break"
limit_reached(limit, imported) == limit # 0 /\ imported >= limit

\* the script started: --reset handling, checkpoint load, locals; fresh notes
\* a start on an empty collection with the zero checkpoint
BulkBegin(reset, batch_size, limit) ==
    /\ ~BulkRunning
    /\ ckpt.imported + Len(log) <= MaxImported
    /\ LET s0 == IF reset THEN EmptyBag ELSE store
           c0 == IF reset THEN ZeroCheckpoint ELSE ckpt
       IN /\ store' = s0
          /\ ckpt' = c0
          /\ bulk' = [BulkIdle EXCEPT !.pc = "loop",
                                      !.batch_size = batch_size,
                                      !.limit = limit,
                                      !.start_line = c0.last_line,
                                      !.total_imported = c0.imported,
                                      !.fresh = (s0 = EmptyBag /\ c0 = ZeroCheckpoint)]
          /\ flushed' = [ckpt |-> c0, sync_state |-> sync_state]
    /\ UNCHANGED <<call_vars, log, sync_state, sync, idem, user_mapping, srch, chat>>

\* the script started while the server has served no /sync-logs request
BulkStart(reset, batch_size, limit) ==
    /\ sync.pc = "idle"
    /\ BulkBegin(reset, batch_size, limit)

\* "for line in f: current_line += 1", the resume skip and the limit check;
\* brk notes that the loop was left by "break"
bulk_read(b, lg) ==
    IF b.current_line < Len(lg)
    THEN LET cl == b.current_line + 1
         IN IF cl <= b.start_line THEN [b EXCEPT !.current_line = cl, !.pc = "loop"]
            ELSE IF limit_reached(b.limit, b.imported)
                 THEN [b EXCEPT !.current_line = cl, !.pc = "final", !.brk = TRUE]
                 ELSE [b EXCEPT !.current_line = cl, !.pc = "parse"]
    ELSE [b EXCEPT !.pc = "final"]

\* parse the line, append it to the batch or count it as skipped
bulk_parse(b, lg) ==
    LET parsed == parse_log_line(lg[b.current_line])
        b1 == IF parsed # NotParseable
              THEN [b EXCEPT !.batch = Append(@, parsed)]
              ELSE [b EXCEPT !.skipped = @ + 1]
    IN [b1 EXCEPT !.pc = IF Len(b1.batch) >= b1.batch_size THEN "flush" ELSE "loop"]

\* "added = rag.add_documents_batch(batch)", which returns len(documents)
bulk_flush(b) == [b EXCEPT !.added = Len(b.batch), !.pc = "commit"]

\* "imported += added", then the checkpoint is saved and "batch = []"
bulk_count(b) == [b EXCEPT !.imported = @ + b.added]
bulk_commit(b) == [bulk_count(b) EXCEPT !.batch = <<>>, !.pc = "loop"]

\* "if batch: added = rag.add_documents_batch(batch); imported += added"
bulk_final(b) ==
    IF b.batch # <<>>
    THEN [b EXCEPT !.added = Len(b.batch), !.imported = @ + Len(b.batch), !.pc = "save"]
    ELSE [b EXCEPT !.pc = "save"]

BulkRead ==
    /\ bulk.pc = "loop"
    /\ bulk' = bulk_read(bulk, log)
    /\ UNCHANGED <<call_vars, log, store, ckpt, sync_state, sync, flushed, idem, user_mapping, srch, chat>>

BulkParse ==
    /\ bulk.pc = "parse"
    /\ bulk' = bulk_parse(bulk, log)
    /\ UNCHANGED <<call_vars, log, store, ckpt, sync_state, sync, flushed, idem, user_mapping, srch, chat>>

BulkFlush ==
    /\ bulk.pc = "flush"
    /\ store' = add_documents_batch(store, bulk.batch)
    /\ bulk' = bulk_flush(bulk)
    /\ UNCHANGED <<call_vars, log, ckpt, sync_state, sync, flushed, idem, user_mapping, srch, chat>>

\* rag.add_documents_batch(batch) raises (full batch or remaining batch)
BulkFlushFails ==
    /\ bulk.pc \in {"flush", "final"}
    /\ bulk.batch # <<>>
    /\ bulk' = [bulk EXCEPT !.pc = "failed"]
    /\ ckpt' = checkpoint_on_error(bulk, ckpt)
    /\ UNCHANGED <<call_vars, log, store, sync_state, sync, flushed, idem, user_mapping, srch, chat>>

BulkCommit ==
    /\ bulk.pc = "commit"
    /\ ckpt' = checkpoint_after_flush(bulk_count(bulk), ckpt)
    /\ bulk' = bulk_commit(bulk)
    /\ flushed' = [ckpt |-> checkpoint_after_flush(bulk_count(bulk), ckpt),
                   sync_state |-> sync_state]
    /\ UNCHANGED <<call_vars, log, store, sync_state, sync, idem, user_mapping, srch, chat>>

BulkFinal ==
    /\ bulk.pc = "final"
    /\ store' = IF bulk.batch # <<>> THEN add_documents_batch(store, bulk.batch) ELSE store
    /\ bulk' = bulk_final(bulk)
    /\ UNCHANGED <<call_vars, log, ckpt, sync_state, sync, flushed, idem, user_mapping, srch, chat>>

\* the final checkpoint
BulkSave ==
    /\ bulk.pc = "save"
    /\ ckpt' = final_checkpoint(bulk, ckpt)
    /\ bulk' = [bulk EXCEPT !.pc = "completed"]
    /\ flushed' = [ckpt |-> final_checkpoint(bulk, ckpt), sync_state |-> sync_state]
    /\ UNCHANGED <<call_vars, log, store, sync_state, sync, idem, user_mapping, srch, chat>>

\* the run from position b.pc to "completed" with no interrupt and no failure
RECURSIVE run_to_completion(_, _, _, _)
run_to_completion(b, coll, c, lg) ==
    IF b.pc = "loop" THEN run_to_completion(bulk_read(b, lg), coll, c, lg)
    ELSE IF b.pc = "parse" THEN run_to_completion(bulk_parse(b, lg), coll, c, lg)
    ELSE IF b.pc = "flush"
    THEN run_to_completion(bulk_flush(b), add_documents_batch(coll, b.batch), c, lg)
    ELSE IF b.pc = "commit"
    THEN run_to_completion(bulk_commit(b), coll,
                           checkpoint_after_flush(bulk_count(b), c), lg)
    ELSE IF b.pc = "final"
    THEN run_to_completion(bulk_final(b),
                           IF b.batch # <<>> THEN add_documents_batch(coll, b.batch)
                           ELSE coll,
                           c, lg)
    ELSE IF b.pc = "save"
    THEN [bulk |-> [b EXCEPT !.pc = "completed"], store |-> coll,
          ckpt |-> final_checkpoint(b, c)]
    ELSE [bulk |-> b, store |-> coll, ckpt |-> c]

\* run_initial_sync(batch_size) once, uninterrupted, on an empty store with no
\* checkpoint file
uninterrupted_run(lg, batch_size) ==
    run_to_completion([BulkIdle EXCEPT !.pc = "loop", !.batch_size = batch_size],
                      EmptyBag, ZeroCheckpoint, lg)

\* KeyboardInterrupt anywhere inside the try block
BulkInterrupt ==
    /\ BulkRunning
    /\ ckpt' = checkpoint_on_interrupt(bulk, ckpt)
    /\ bulk' = [bulk EXCEPT !.pc = "interrupted"]
    /\ UNCHANGED <<call_vars, log, store, sync_state, sync, flushed, idem, user_mapping, srch, chat>>

\* ---------------------------------------------------------------- incremental sync
\* a start line that ignores force_full (what C16 rules out)
sync_start_line_saved(force_full, state) == state.last_line

\* "start_line = 0 if request.force_full else sync_state.get('last_line', 0)"
sync_start_line(force_full, state) == IF force_full THEN 0 ELSE state.last_line

SyncStart(force_full, batch_size, max_entries) ==
    /\ bulk.pc = "idle" /\ ~SyncRunning
    /\ LET sl == sync_start_line(force_full, sync_state)
       IN sync' = [SyncIdle EXCEPT !.pc = "loop", !.force_full = force_full,
                                   !.batch_size = batch_size,
                                   !.max_entries = max_entries,
                                   !.start_line = sl, !.current_line = sl,
                                   !.fresh = (store = EmptyBag
                                              /\ sync_state = ZeroSyncState)]
    /\ flushed' = Persisted
    /\ idem' = IF idem.set /\ force_full THEN [idem EXCEPT !.again = TRUE] ELSE idem
    /\ UNCHANGED <<call_vars, log, store, ckpt, sync_state, bulk, user_mapping, srch, chat>>

\* one iteration of "for line in f" up to the batch-size test
SyncRead ==
    /\ sync.pc = "loop"
    /\ IF sync.current_line < Len(log)
       THEN LET s1 == [sync EXCEPT !.current_line = @ + 1, !.processed = @ + 1]
                parsed == main_parse_log_line(log[s1.current_line])
                s2 == IF parsed # NotParseable
                      THEN [s1 EXCEPT !.batch = Append(@, parsed)]
                      ELSE [s1 EXCEPT !.skipped = @ + 1]
            IN IF limit_reached(sync.max_entries, sync.imported)
               THEN sync' = [s1 EXCEPT !.pc = "rest", !.brk = TRUE]
               ELSE sync' = [s2 EXCEPT !.pc = IF Len(s2.batch) >= s2.batch_size
                                              THEN "flush" ELSE "loop"]
       ELSE sync' = [sync EXCEPT !.pc = "rest"]
    /\ UNCHANGED <<call_vars, log, store, ckpt, sync_state, bulk, flushed, idem, user_mapping, srch, chat>>

\* the sync-state file when add_document raises: "except Exception" answers
\* HTTP 500 and save_sync_state is not reached
sync_state_on_error(s, state) == state

\* one rag_service.add_document of "for item in batch" (full or remaining batch)
SyncAdd ==
    /\ sync.pc \in {"flush", "rest"}
    /\ sync.batch # <<>>
    /\ store' = add_document(store, Head(sync.batch))
    /\ sync' = [sync EXCEPT !.imported = @ + 1, !.batch = Tail(@)]
    /\ UNCHANGED <<call_vars, log, ckpt, sync_state, bulk, flushed, idem, user_mapping, srch, chat>>

\* rag_service.add_document raises
SyncAddFails ==
    /\ sync.pc \in {"flush", "rest"}
    /\ sync.batch # <<>>
    /\ sync' = [sync EXCEPT !.pc = "failed"]
    /\ sync_state' = sync_state_on_error(sync, sync_state)
    /\ UNCHANGED <<call_vars, log, store, ckpt, bulk, flushed, idem, user_mapping, srch, chat>>

\* "batch = []; await asyncio.sleep(0.01)" after a full batch
SyncFlushed ==
    /\ sync.pc = "flush"
    /\ sync.batch = <<>>
    /\ sync' = [sync EXCEPT !.pc = "loop"]
    /\ flushed' = Persisted
    /\ UNCHANGED <<call_vars, log, store, ckpt, sync_state, bulk, idem, user_mapping, srch, chat>>

\* save_sync_state after the loop and the remaining batch
SyncSave ==
    /\ sync.pc = "rest"
    /\ sync.batch = <<>>
    /\ sync_state' = [last_line |-> sync.current_line]
    /\ sync' = [sync EXCEPT !.pc = "done"]
    /\ flushed' = [ckpt |-> ckpt, sync_state |-> [last_line |-> sync.current_line]]
    /\ idem' = IF sync.start_line = 0 /\ ~sync.brk /\ sync.current_line = Len(log)
                  /\ ~idem.set
               THEN [set |-> TRUE, count |-> get_document_count(store), again |-> FALSE]
               ELSE idem
    /\ UNCHANGED <<call_vars, log, store, ckpt, bulk, user_mapping, srch, chat>>

\* POST /sync-logs/reset
ResetSyncState ==
    /\ bulk.pc = "idle" /\ ~SyncRunning
    /\ sync_state # ZeroSyncState
    /\ sync_state' = ZeroSyncState
    /\ UNCHANGED <<call_vars, log, store, ckpt, bulk, sync, flushed, idem, user_mapping, srch, chat>>

\* ---------------------------------------------------------------- store calls
Owners == {"u1", "u2"}

\* what callers hand to addOne / addBatch: two turns, each under either owner
StoreRecords ==
    {Record(Content("alice", <<"h", "i">>, r), u, "alice", "t2", Absent, Absent) :
        r \in {<<"o", "k">>, <<"n", "o">>}, u \in Owners}

\* rag.add_document(content, metadata)
AddOne(rec) ==
    /\ store' = add_document(store, rec)
    /\ UNCHANGED <<call_vars, ingest_vars, user_mapping, srch, chat>>

\* "return len(documents)" (0 for the empty list)
add_documents_batch_returns(documents) == Len(documents)

\* two entries of one list hash to the same id
HasRepeatedIds(documents) ==
    \E i, j \in 1..Len(documents) :
        i # j /\ Doc(documents[i]).id = Doc(documents[j]).id

NoReturn == [called |-> FALSE, raised |-> FALSE, returned |-> 0, inserted |-> 0]

\* rag.add_documents_batch(documents): what it returns and how many documents
\* the collection gained; given a list that repeats an id, the collection
\* either keeps one of them or rejects the whole call
AddBatch(documents) ==
    /\ \/ /\ store' = add_documents_batch(store, documents)
          /\ ret' = [called |-> TRUE, raised |-> FALSE,
                     returned |-> add_documents_batch_returns(documents),
                     inserted |-> get_document_count(add_documents_batch(store, documents))
                                     - get_document_count(store)]
       \/ /\ HasRepeatedIds(documents)
          /\ store' = store
          /\ ret' = [called |-> TRUE, raised |-> TRUE, returned |-> 0, inserted |-> 0]
    /\ UNCHANGED <<serve_vars, parse, reqs, file, ingest_vars, user_mapping, srch, chat>>

\* ---------------------------------------------------------------- /log requests
\* the handler slots of the server
Requests == {1, 2}

IdleRequest == [pc |-> "idle", rec |-> Record(<<>>, None, None, None, Absent, Absent),
                id |-> <<>>, before |-> 0, after |-> 0, dup |-> FALSE]
NoRequests == [r \in Requests |-> IdleRequest]

\* a stored document with the content and timestamp of rec
StoredTwin(coll, rec) ==
    {d \in BagToSet(coll) :
        d.content = rec.content /\ d.metadata.timestamp = rec.metadata.timestamp}

\* POST /log accepted: the document of the request, timestamp included
LogArrive(r, rec) ==
    /\ reqs[r].pc = "idle"
    /\ reqs' = [reqs EXCEPT ![r] = [IdleRequest EXCEPT !.pc = "pending", !.rec = rec]]
    /\ UNCHANGED <<serve_vars, parse, ret, file, ingest_vars, store, user_mapping, srch, chat>>

\* the handler body: rag_service.add_document, which has no await in it and
\* so runs to its end before another request's body starts
LogIndex(r) ==
    /\ reqs[r].pc = "pending"
    /\ store' = add_document(store, reqs[r].rec)
    /\ reqs' = [reqs EXCEPT ![r] =
                   [@ EXCEPT !.pc = "indexed",
                             !.id = doc_id(reqs[r].rec.content, reqs[r].rec.metadata),
                             !.before = get_document_count(store),
                             !.after = get_document_count(add_document(store, reqs[r].rec)),
                             !.dup = StoredTwin(store, reqs[r].rec) # {}]]
    /\ UNCHANGED <<serve_vars, parse, ret, file, ingest_vars, user_mapping, srch, chat>>

\* {"status": "indexed", "doc_id": doc_id} sent; the slot is free again
LogRespond(r) ==
    /\ reqs[r].pc = "indexed"
    /\ reqs' = [reqs EXCEPT ![r] = IdleRequest]
    /\ UNCHANGED <<serve_vars, parse, ret, file, ingest_vars, store, user_mapping, srch, chat>>

\* rag.search(query, k, user_filter)
Search(query, k, user_filter) ==
    /\ \E out \in search(store, query, k, user_filter) :
          srch' = [called |-> TRUE, k |-> k, user_filter |-> user_filter,
                   count |-> get_document_count(store), raised |-> out.raised,
                   requested |-> out.requested, results |-> out.results]
    /\ UNCHANGED <<call_vars, ingest_vars, store, user_mapping, chat>>

\* ---------------------------------------------------------------- the RAGService instance
\* the fields of an instance (_embedder, _model_name, _fast_mode), how often
\* the embedding model was loaded, and the last call with the size of what it
\* was given (documents of the call, or documents stored for a search)
NoInstance == [constructed |-> FALSE, fast_mode |-> TRUE, model_name |-> None,
               embedder |-> None, loads |-> 0, last |-> [op |-> "none", n |-> 0]]

\* "all-MiniLM-L6-v2" if fast_mode else "BAAI/bge-m3"
model_name(fast_mode) == IF fast_mode THEN "all-MiniLM-L6-v2" ELSE "BAAI/bge-m3"

\* a property that loads the model at every access (what C25 rules out)
embedder_reloading(inst) == [inst EXCEPT !.embedder = inst.model_name, !.loads = @ + 1]

\* the embedder property: SentenceTransformer(self._model_name) when
\* self._embedder is None
embedder(inst) ==
    IF inst.embedder = None
    THEN [inst EXCEPT !.embedder = inst.model_name, !.loads = @ + 1]
    ELSE inst

Called(inst, op, n) == [inst EXCEPT !.last = [op |-> op, n |-> n]]

\* RAGService(fast_mode): the collection on disk is opened, not changed
RagInit(fast_mode) ==
    /\ ~rag.constructed
    /\ rag' = [NoInstance EXCEPT !.constructed = TRUE, !.fast_mode = fast_mode,
                                 !.model_name = model_name(fast_mode),
                                 !.last = [op |-> "init", n |-> 0]]
    /\ UNCHANGED <<parse, ret, reqs, file, handlers, after_reset, ingest_vars, store,
                   user_mapping, srch, chat>>

RagIsAvailable ==
    /\ rag.constructed
    /\ rag' = Called(rag, "is_available", get_document_count(store))
    /\ UNCHANGED <<parse, ret, reqs, file, handlers, after_reset, ingest_vars, store,
                   user_mapping, srch, chat>>

RagGetDocumentCount ==
    /\ rag.constructed
    /\ rag' = Called(rag, "get_document_count", get_document_count(store))
    /\ UNCHANGED <<parse, ret, reqs, file, handlers, after_reset, ingest_vars, store,
                   user_mapping, srch, chat>>

\* clear_all: the collection is deleted and created again
RagClearAll ==
    /\ rag.constructed
    /\ store' = EmptyBag
    /\ rag' = Called(rag, "clear_all", get_document_count(store))
    /\ UNCHANGED <<parse, ret, reqs, file, handlers, after_reset, ingest_vars,
                   user_mapping, srch, chat>>

RagAddDocument(rec) ==
    /\ rag.constructed
    /\ store' = add_document(store, rec)
    /\ rag' = Called(embedder(rag), "add_document", 1)
    /\ UNCHANGED <<parse, ret, reqs, file, handlers, after_reset, ingest_vars,
                   user_mapping, srch, chat>>

\* add_documents_batch: "if not documents: return 0" comes before the encode
RagAddDocumentsBatch(documents) ==
    /\ rag.constructed
    /\ IF documents = <<>>
       THEN /\ store' = store
            /\ rag' = Called(rag, "add_documents_batch", 0)
       ELSE /\ \/ store' = add_documents_batch(store, documents)
               \/ HasRepeatedIds(documents) /\ store' = store
            /\ rag' = Called(embedder(rag), "add_documents_batch", Len(documents))
    /\ UNCHANGED <<parse, ret, reqs, file, handlers, after_reset, ingest_vars,
                   user_mapping, srch, chat>>

\* search: "if self.collection.count() == 0: return []" comes before the encode
RagSearch(query, k, user_filter) ==
    /\ rag.constructed
    /\ rag' = IF get_document_count(store) = 0
              THEN Called(rag, "search", 0)
              ELSE Called(embedder(rag), "search", get_document_count(store))
    /\ UNCHANGED <<parse, ret, reqs, file, handlers, after_reset, ingest_vars, store,
                   user_mapping, srch, chat>>

\* ---------------------------------------------------------------- /sync-logs requests in flight
\* The handler is a coroutine: it runs without a break from one await to the
\* next. Its only await is asyncio.sleep(0.01) after a full batch was added;
\* there the event loop may serve any other request.
NoHandlers == [r \in Requests |-> SyncIdle]

\* "for item in batch: rag_service.add_document(...)"
RECURSIVE add_each(_, _)
add_each(coll, batch) ==
    IF batch = <<>> THEN coll ELSE add_each(add_document(coll, Head(batch)), Tail(batch))

\* after the loop: the remaining batch is added, the state is about to be saved
sync_rest(s, coll) ==
    [sync |-> [s EXCEPT !.imported = @ + Len(s.batch), !.pc = "save"],
     store |-> add_each(coll, s.batch)]

\* the loop from the line at hand up to the next await (pc "await") or to the
\* end of the loop (pc "save")
RECURSIVE sync_until_await(_, _, _)
sync_until_await(s, coll, lg) ==
    IF s.current_line < Len(lg)
    THEN LET s1 == [s EXCEPT !.current_line = @ + 1, !.processed = @ + 1]
             parsed == main_parse_log_line(lg[s1.current_line])
             s2 == IF parsed # NotParseable
                   THEN [s1 EXCEPT !.batch = Append(@, parsed)]
                   ELSE [s1 EXCEPT !.skipped = @ + 1]
         IN IF limit_reached(s.max_entries, s.imported)
            THEN sync_rest([s1 EXCEPT !.brk = TRUE], coll)
            ELSE IF Len(s2.batch) >= s2.batch_size
                 THEN [sync |-> [s2 EXCEPT !.imported = @ + Len(s2.batch),
                                           !.batch = <<>>, !.pc = "await"],
                       store |-> add_each(coll, s2.batch)]
                 ELSE sync_until_await(s2, coll, lg)
    ELSE sync_rest(s, coll)

\* one uninterrupted stretch of the handler in slot r, from the locals s:
\* up to the await, or up to save_sync_state and the response
ServeStretch(r, s) ==
    LET out == sync_until_await(s, store, log)
    IN /\ store' = out.store
       /\ IF out.sync.pc = "save"
          THEN /\ sync_state' = [last_line |-> out.sync.current_line]
               /\ handlers' = [handlers EXCEPT ![r] = [out.sync EXCEPT !.pc = "done"]]
          ELSE /\ sync_state' = sync_state
               /\ handlers' = [handlers EXCEPT ![r] = out.sync]

\* POST /sync-logs accepted in a free slot: load_sync_state, start_line, and
\* the loop up to its first await
ServeSync(r, force_full, batch_size, max_entries) ==
    /\ handlers[r].pc = "idle"
    /\ LET sl == sync_start_line(force_full, sync_state)
       IN ServeStretch(r, [SyncIdle EXCEPT !.pc = "loop", !.force_full = force_full,
                                          !.batch_size = batch_size,
                                          !.max_entries = max_entries,
                                          !.start_line = sl, !.current_line = sl])
    /\ after_reset' = FALSE
    /\ UNCHANGED <<parse, ret, reqs, file, rag, log, ckpt, bulk, sync, flushed, idem,
                   user_mapping, srch, chat>>

\* the sleep is over: the handler goes on from where it stopped
ResumeSync(r) ==
    /\ handlers[r].pc = "await"
    /\ ServeStretch(r, [handlers[r] EXCEPT !.pc = "loop"])
    /\ UNCHANGED <<parse, ret, reqs, file, rag, after_reset, log, ckpt, bulk, sync, flushed,
                   idem, user_mapping, srch, chat>>

\* the response of a finished run is out: the slot is free again
RespondSync(r) ==
    /\ handlers[r].pc = "done"
    /\ handlers' = [handlers EXCEPT ![r] = SyncIdle]
    /\ UNCHANGED <<parse, ret, reqs, file, rag, after_reset, log, store, ckpt, sync_state,
                   bulk, sync, flushed, idem, user_mapping, srch, chat>>

\* POST /sync-logs/reset served: save_sync_state({"last_line": 0, ...})
ServeReset ==
    /\ sync_state' = ZeroSyncState
    /\ after_reset' = TRUE
    /\ UNCHANGED <<parse, ret, reqs, file, rag, handlers, log, store, ckpt, bulk, sync,
                   flushed, idem, user_mapping, srch, chat>>

\* ---------------------------------------------------------------- chat
\* str.lower(), character by character; a keyword of the history test is one
\* token, like the character runs of the log lines
LowerChar(c) ==
    IF c = "A" THEN "a" ELSE IF c = "B" THEN "b" ELSE IF c = "HISTORY" THEN "history" ELSE c
lower(text) == [i \in 1..Len(text) |-> LowerChar(text[i])]

\* Python "needle in hay" on strings
Contains(needle, hay) ==
    \E i \in 0..(Len(hay) - Len(needle)) : SubSeq(hay, i + 1, i + Len(needle)) = needle

\* find_mentioned_user returns (None, None): no name, no id
NotMentioned == [username |-> <<>>, user_id |-> None]

\* find_mentioned_user: the first entry, in the mapping's order, whose name
\* occurs in the message and that lists a server; its first server's user
RECURSIVE find_from(_, _, _)
find_from(message, mapping, i) ==
    IF i > Len(mapping) THEN NotMentioned
    ELSE IF Contains(lower(mapping[i].username), lower(message))
            /\ mapping[i].servers # <<>>
         THEN [username |-> mapping[i].username,
               user_id |-> mapping[i].servers[1].user]
         ELSE find_from(message, mapping, i + 1)

find_mentioned_user(message, mapping) == find_from(message, mapping, 1)

\* "target_user = request.user; if mentioned_user_id and mentioned_user_id !=
\* request.user: target_user = mentioned_user_id"
target_user(user, mentioned) ==
    IF ~Falsy(mentioned.user_id) /\ mentioned.user_id # user
    THEN mentioned.user_id ELSE user

\* the CATATAN note naming the mentioned user, or the empty string
context_owner_info(user, mentioned) ==
    IF mentioned.username # <<>> /\ mentioned.user_id # user
    THEN <<"CATATAN">> \o mentioned.username ELSE <<>>

\* k_results = 10
K_RESULTS == 10
\* "k_results = 10  # Get history questions"
K_RESULTS_HISTORY == 10

history_keywords ==
    {"pernah", "sebelumnya", "riwayat", "history", "tanyakan", "bahas", "ngobrol", "cerita"}

\* any(kw in request.message.lower() for kw in history_keywords)
is_history_question(message) ==
    \E i \in 1..Len(message) : LowerChar(message[i]) \in history_keywords

\* "percakapan topik"
GenericQuery == <<"percakapan topik">>

\* search_query: the message, or the generic query for a history question
search_query(message, is_history) == IF is_history THEN GenericQuery ELSE message

\* k_results: set before the test and set again inside it
k_results(is_history) == IF is_history THEN K_RESULTS_HISTORY ELSE K_RESULTS

NoChat == [status |-> "none", user |-> None, message |-> <<>>, target_user |-> None,
           user_filter |-> None, context_docs |-> {}, context_owner_note |-> <<>>,
           search_raised |-> FALSE,
           is_history_question |-> FALSE, search_query |-> <<>>, k_results |-> 0]

\* rag_service.search raising: the index cannot be opened or queried, or the
\* embedding model cannot be loaded
SearchFailure == [raised |-> TRUE, requested |-> 0, results |-> {}]

\* what becomes of the request when the search raised: "except Exception"
\* around the whole handler answers HTTP 500, generate is not reached
chat_status(search_raised) == IF search_raised THEN "error" ELSE "answered"

\* POST /chat: the search and what is handed to llm_service.generate
\* ("answered"), or HTTP 500 ("error")
Chat(user, message) ==
    /\ LET mentioned == find_mentioned_user(message, user_mapping)
           target == target_user(user, mentioned)
           is_history == is_history_question(message)
       IN \E out \in search(store, search_query(message, is_history),
                            k_results(is_history), target) \cup {SearchFailure} :
             chat' = [status |-> chat_status(out.raised),
                      user |-> user, message |-> message, target_user |-> target,
                      user_filter |-> target,
                      context_docs |-> out.results,
                      context_owner_note |-> context_owner_info(user, mentioned),
                      search_raised |-> out.raised,
                      is_history_question |-> is_history,
                      search_query |-> search_query(message, is_history),
                      k_results |-> k_results(is_history)]
    /\ UNCHANGED <<call_vars, ingest_vars, store, user_mapping, srch>>

\* POST /log: one turn indexed under the caller's user id at the current time
ReceiveLog(rec) == AddOne(rec)

\* the document receive_log builds from a LogRequest: the content template
\* over the request's fields, "timestamp": datetime.now().isoformat()
log_document(request, now) ==
    Record(Content(request.username, request.query, request.reply),
           request.user, request.username, now, Absent, Absent)

\* the LogRequest for the turn that a JSON line of messages.log records
TurnRequest(line) ==
    [user |-> line.user, username |-> line.username,
     query |-> line.query, reply |-> line.reply]

\* ---------------------------------------------------------------- specifications
RECURSIVE SeqsUpTo(_, _)
SeqsUpTo(S, n) ==
    IF n = 0 THEN {<<>>}
    ELSE LET shorter == SeqsUpTo(S, n - 1)
         IN shorter \cup {Append(q, x) : q \in shorter, x \in S}

Init ==
    /\ log \in SeqsUpTo(Lines, MaxLogLen)
    /\ store = EmptyBag
    /\ ckpt = ZeroCheckpoint
    /\ sync_state = ZeroSyncState
    /\ bulk = BulkIdle
    /\ sync = SyncIdle
    /\ flushed = [ckpt |-> ZeroCheckpoint, sync_state |-> ZeroSyncState]
    /\ idem = NoIdem
    /\ user_mapping = <<>>
    /\ srch = NoSearch
    /\ chat = NoChat
    /\ parse = NoParse
    /\ ret = NoReturn
    /\ reqs = NoRequests
    /\ handlers = NoHandlers
    /\ after_reset = FALSE
    /\ rag = NoInstance
    /\ file = NoFile

BulkNext ==
    \/ BulkRead
    \/ BulkParse
    \/ BulkFlush
    \/ BulkCommit
    \/ BulkFinal
    \/ BulkSave
    \/ BulkInterrupt

Next ==
    \/ \E reset \in BOOLEAN, bs \in 1..MaxBatchSize, limit \in 0..MaxLimit :
          BulkStart(reset, bs, limit)
    \/ BulkNext
    \/ BulkFlushFails
    \/ \E ff \in BOOLEAN, bs \in 1..MaxBatchSize, me \in 0..MaxLimit :
          SyncStart(ff, bs, me)
    \/ SyncRead
    \/ SyncAdd
    \/ SyncAddFails
    \/ SyncFlushed
    \/ SyncSave
    \/ ResetSyncState

Spec == Init /\ [][Next]_vars

\* sync runs only: the /sync-logs endpoints of the server
SyncNext ==
    \/ \E ff \in BOOLEAN, bs \in 1..MaxBatchSize, me \in 0..MaxLimit :
          SyncStart(ff, bs, me)
    \/ SyncRead
    \/ SyncAdd
    \/ SyncAddFails
    \/ SyncFlushed
    \/ SyncSave
    \/ ResetSyncState

SpecSync == Init /\ [][SyncNext]_vars

\* the bulk script run again and again with the same batch size, no --reset,
\* no --limit, the store never failing; only interrupts disturb it
ResumeNext ==
    \/ \E bs \in 1..MaxBatchSize :
          /\ bulk.pc = "idle" \/ bulk.batch_size = bs
          /\ BulkStart(FALSE, bs, 0)
    \/ BulkNext

SpecResume == Init /\ [][ResumeNext]_vars

\* the store under addOne, addBatch and search
StoreNext ==
    \/ \E rec \in StoreRecords : AddOne(rec)
    \/ \E documents \in SeqsUpTo(StoreRecords, MaxBatchSize) : AddBatch(documents)
    \/ \E k \in 1..MaxK, f \in Owners \cup {None, ""} : Search(<<"h", "i">>, k, f)

InitStore ==
    /\ log = <<>>
    /\ store = EmptyBag
    /\ ckpt = ZeroCheckpoint
    /\ sync_state = ZeroSyncState
    /\ bulk = BulkIdle
    /\ sync = SyncIdle
    /\ flushed = [ckpt |-> ZeroCheckpoint, sync_state |-> ZeroSyncState]
    /\ idem = NoIdem
    /\ user_mapping = <<>>
    /\ srch = NoSearch
    /\ chat = NoChat
    /\ parse = NoParse
    /\ ret = NoReturn
    /\ reqs = NoRequests
    /\ handlers = NoHandlers
    /\ after_reset = FALSE
    /\ rag = NoInstance
    /\ file = NoFile

SpecStore == InitStore /\ [][StoreNext]_vars

\* the serving path: /log and /chat with a directory loaded at startup
Names == {<<"a">>, <<"B">>}
Servers == {<<>>} \cup {<<[user |-> u]>> : u \in Owners \cup {None}}
Entries == [username : Names, servers : Servers]
Directories ==
    {d \in SeqsUpTo(Entries, MaxDir) :
        \A i, j \in 1..Len(d) : d[i].username = d[j].username => i = j}
Messages == SeqsUpTo({"a", "b", "B"}, MaxMsgLen)

\* the turns /log indexes here: one of u1, one of u2
LogRecords ==
    {Record(Content("alice", <<"h", "i">>, <<"o", "k">>), "u1", "alice", "t2", Absent, Absent),
     Record(Content("bob", <<"y", "o">>, <<"n", "o">>), "u2", "bob", "t3", Absent, Absent)}

InitChat ==
    /\ log = <<>>
    /\ store = EmptyBag
    /\ ckpt = ZeroCheckpoint
    /\ sync_state = ZeroSyncState
    /\ bulk = BulkIdle
    /\ sync = SyncIdle
    /\ flushed = [ckpt |-> ZeroCheckpoint, sync_state |-> ZeroSyncState]
    /\ idem = NoIdem
    /\ user_mapping \in Directories
    /\ srch = NoSearch
    /\ chat = NoChat
    /\ parse = NoParse
    /\ ret = NoReturn
    /\ reqs = NoRequests
    /\ handlers = NoHandlers
    /\ after_reset = FALSE
    /\ rag = NoInstance
    /\ file = NoFile

\* One /chat request is followed in each behaviour: a request reads the store
\* and the directory only, nothing an earlier request left behind.
ChatNext ==
    \/ \E rec \in LogRecords : ReceiveLog(rec)
    \/ /\ chat.status = "none"
       /\ \E user \in Owners \cup {None, ""}, message \in Messages : Chat(user, message)

SpecChat == InitChat /\ [][ChatNext]_vars

\* the script run again and again, with or without --limit, interrupted or
\* not; while a run is in flight its process keeps taking steps
BulkStep ==
    \/ BulkRead
    \/ BulkParse
    \/ BulkFlush
    \/ BulkCommit
    \/ BulkFinal
    \/ BulkSave

LiveNext ==
    \/ \E bs \in 1..MaxBatchSize, limit \in 0..MaxLimit : BulkStart(FALSE, bs, limit)
    \/ BulkStep
    \/ BulkInterrupt

\* logs long enough for a run to stop at its limit before the last line
InitLive ==
    /\ log \in SeqsUpTo({LineJson, LineGarbage}, MaxLiveLog)
    /\ store = EmptyBag
    /\ ckpt = ZeroCheckpoint
    /\ sync_state = ZeroSyncState
    /\ bulk = BulkIdle
    /\ sync = SyncIdle
    /\ flushed = [ckpt |-> ZeroCheckpoint, sync_state |-> ZeroSyncState]
    /\ idem = NoIdem
    /\ user_mapping = <<>>
    /\ srch = NoSearch
    /\ chat = NoChat
    /\ parse = NoParse
    /\ ret = NoReturn
    /\ reqs = NoRequests
    /\ handlers = NoHandlers
    /\ after_reset = FALSE
    /\ rag = NoInstance
    /\ file = NoFile

\* the steps of the run other than parsing a line
BulkStepAround ==
    \/ BulkRead
    \/ BulkFlush
    \/ BulkCommit
    \/ BulkFinal
    \/ BulkSave

\* weak fairness of every step of the run; for BulkParse, which is enabled
\* exactly when bulk.pc = "parse" and then leaves it, weak fairness is
\* []<>(bulk.pc # "parse")
SpecLive ==
    InitLive /\ [][LiveNext]_vars /\ WF_vars(BulkStepAround) /\ []<>(bulk.pc # "parse")

\* runs with and without a limit, one after the other, each resuming from the
\* position the one before saved; no interrupt, no failing store call
LimitNext ==
    \/ \E bs \in 1..MaxBatchSize, limit \in 0..MaxLimit : BulkStart(FALSE, bs, limit)
    \/ BulkStep
    \/ \E bs \in 1..MaxBatchSize, me \in 0..MaxLimit : SyncStart(FALSE, bs, me)
    \/ SyncRead
    \/ SyncAdd
    \/ SyncFlushed
    \/ SyncSave

SpecLimit == Init /\ [][LimitNext]_vars

\* /chat with messages that hold history keywords, in either case, or none
HistoryMessages == SeqsUpTo({"a", "riwayat", "HISTORY", "bahas"}, MaxMsgLen)
HistoryDirectories ==
    {<<>>, <<[username |-> <<"a">>, servers |-> <<[user |-> "u2"]>>]>>}

InitHistory ==
    /\ log = <<>>
    /\ store = EmptyBag
    /\ ckpt = ZeroCheckpoint
    /\ sync_state = ZeroSyncState
    /\ bulk = BulkIdle
    /\ sync = SyncIdle
    /\ flushed = [ckpt |-> ZeroCheckpoint, sync_state |-> ZeroSyncState]
    /\ idem = NoIdem
    /\ user_mapping \in HistoryDirectories
    /\ srch = NoSearch
    /\ chat = NoChat
    /\ parse = NoParse
    /\ ret = NoReturn
    /\ reqs = NoRequests
    /\ handlers = NoHandlers
    /\ after_reset = FALSE
    /\ rag = NoInstance
    /\ file = NoFile

HistoryNext ==
    \/ \E rec \in LogRecords : ReceiveLog(rec)
    \/ \E user \in Owners, message \in HistoryMessages : Chat(user, message)

SpecHistory == InitHistory /\ [][HistoryNext]_vars

\* the server with /sync-logs and /sync-logs/reset requests arriving at any time
ConcNext ==
    \/ \E r \in Requests, ff \in BOOLEAN, bs \in 1..MaxBatchSize, me \in 0..MaxLimit :
          ServeSync(r, ff, bs, me)
    \/ \E r \in Requests : ResumeSync(r)
    \/ \E r \in Requests : RespondSync(r)
    \/ ServeReset

SpecConc == Init /\ [][ConcNext]_vars

\* one RAGService instance and the calls made on it, in any order
EmbedNext ==
    \/ \E fast_mode \in BOOLEAN : RagInit(fast_mode)
    \/ RagIsAvailable
    \/ RagGetDocumentCount
    \/ RagClearAll
    \/ \E rec \in StoreRecords : RagAddDocument(rec)
    \/ \E documents \in SeqsUpTo(StoreRecords, MaxBatchSize) : RagAddDocumentsBatch(documents)
    \/ \E k \in 1..MaxK, f \in Owners \cup {None} : RagSearch(<<"h", "i">>, k, f)

SpecEmbed == InitStore /\ [][EmbedNext]_vars

\* a turn goes to /log and is also a line of messages.log, which /sync-logs
\* ingests. The line carries the writer's timestamp: the prefix, or a
\* "timestamp" field, which may or may not be the text the server's clock gave
TurnLines == {Line("tsjson", "t0", "u2", "bob", <<"b", "y", "e">>, <<"o", "k">>, ts) :
                 ts \in {Absent, "t9", Now}}

InitTurn ==
    /\ log \in SeqsUpTo(TurnLines \cup {LineLegacy, LineGarbage}, MaxLogLen)
    /\ store = EmptyBag
    /\ ckpt = ZeroCheckpoint
    /\ sync_state = ZeroSyncState
    /\ bulk = BulkIdle
    /\ sync = SyncIdle
    /\ flushed = [ckpt |-> ZeroCheckpoint, sync_state |-> ZeroSyncState]
    /\ idem = NoIdem
    /\ user_mapping = <<>>
    /\ srch = NoSearch
    /\ chat = NoChat
    /\ parse = NoParse
    /\ ret = NoReturn
    /\ reqs = NoRequests
    /\ handlers = NoHandlers
    /\ after_reset = FALSE
    /\ rag = NoInstance
    /\ file = NoFile

TurnNext ==
    \/ \E i \in 1..Len(log) :
          /\ log[i] \in TurnLines
          /\ LogArrive(1, log_document(TurnRequest(log[i]), Now))
    \/ LogIndex(1)
    \/ \E bs \in 1..MaxBatchSize : SyncStart(FALSE, bs, 0)
    \/ SyncRead
    \/ SyncAdd
    \/ SyncFlushed
    \/ SyncSave

SpecTurn == InitTurn /\ [][TurnNext]_vars

\* the server syncs, then the script is run (with or without --reset): the two
\* checkpoint files side by side
ClearNext ==
    \/ \E bs \in 1..MaxBatchSize : SyncStart(FALSE, bs, 0)
    \/ SyncRead
    \/ SyncAdd
    \/ SyncFlushed
    \/ SyncSave
    \/ ResetSyncState
    \/ \E reset \in BOOLEAN, bs \in 1..MaxBatchSize :
          /\ ~SyncRunning
          /\ BulkBegin(reset, bs, 0)
    \/ BulkNext

SpecClear == Init /\ [][ClearNext]_vars

\* /log requests, up to two in flight
AddNext ==
    \/ \E r \in Requests, rec \in StoreRecords : LogArrive(r, rec)
    \/ \E r \in Requests : LogIndex(r)
    \/ \E r \in Requests : LogRespond(r)

SpecAdd == InitStore /\ [][AddNext]_vars

\* loading a checkpoint file, whatever it holds
JValues == {JAbsent, JStr, JNull} \cup {JInt(n) : n \in 0..MaxBatchSize}
FileContents ==
    {FileContent(k, JAbsent, JAbsent) : k \in {"missing", "unreadable", "null", "list", "number"}}
    \cup {FileContent("object", l, i) : l \in JValues, i \in JValues}

InitLoad ==
    /\ log = <<>>
    /\ store = EmptyBag
    /\ ckpt = ZeroCheckpoint
    /\ sync_state = ZeroSyncState
    /\ bulk = BulkIdle
    /\ sync = SyncIdle
    /\ flushed = [ckpt |-> ZeroCheckpoint, sync_state |-> ZeroSyncState]
    /\ idem = NoIdem
    /\ user_mapping = <<>>
    /\ srch = NoSearch
    /\ chat = NoChat
    /\ parse = NoParse
    /\ ret = NoReturn
    /\ reqs = NoRequests
    /\ handlers = NoHandlers
    /\ after_reset = FALSE
    /\ rag = NoInstance
    /\ file \in {[NoFile EXCEPT !.content = c] : c \in FileContents}

LoadNext ==
    \/ LoadCheckpoint
    \/ \E ff \in BOOLEAN : LoadSyncState(ff)

SpecLoad == InitLoad /\ [][LoadNext]_vars

\* the parsers on single lines: every frame, with texts that are plain, one
\* character long, padded, bracketed or the banner phrase
Queries == {<<"y", "o">>, <<"y">>, <<" ", "y", NL>>, <<"y", "]", "o">>, <<BANNER>>}
Replies == {<<"h", "m">>, <<"h">>, <<"h", "]", "m">>}
SegmentLists == {<<>>, <<<<"g", "g">>>>}
Tails == {StdTail, <<"]">>, <<"]", " ", "x">>, <<>>}

ParseLines ==
    {BracketLine(p, "carol", q, g, r, t) :
        p \in {"t1", None}, q \in Queries, g \in SegmentLists, r \in Replies, t \in Tails}
    \cup {Line("json", None, u, n, q, r, ts) :
        u \in {"u1", Absent}, n \in {"alice", Absent}, q \in Queries, r \in Replies,
        ts \in {"t9", Absent}}
    \cup {Line("tsjson", "t0", u, n, q, r, ts) :
        u \in {"u1", Absent}, n \in {"alice", Absent}, q \in Queries, r \in Replies,
        ts \in {"t9", Absent}}
    \cup {Line(f, None, Absent, Absent, <<>>, <<>>, Absent) : f \in {"blank", "badjson", "other"}}
    \cup {Line("other", None, Absent, BANNER, <<>>, <<>>, Absent)}

InitParse ==
    /\ log = <<>>
    /\ store = EmptyBag
    /\ ckpt = ZeroCheckpoint
    /\ sync_state = ZeroSyncState
    /\ bulk = BulkIdle
    /\ sync = SyncIdle
    /\ flushed = [ckpt |-> ZeroCheckpoint, sync_state |-> ZeroSyncState]
    /\ idem = NoIdem
    /\ user_mapping = <<>>
    /\ srch = NoSearch
    /\ chat = NoChat
    /\ parse \in {[NoParse EXCEPT !.line = l] : l \in ParseLines}
    /\ ret = NoReturn
    /\ reqs = NoRequests
    /\ handlers = NoHandlers
    /\ after_reset = FALSE
    /\ rag = NoInstance
    /\ file = NoFile

ParseNext == ParseLine

SpecParse == InitParse /\ [][ParseNext]_vars

\* ---------------------------------------------------------------- properties
\* the line is what a writer of one of the four formats produces: an object
\* with query, reply and user (bare or behind a timestamp), or a bracketed
\* line with a timestamp, a closed reply bracket and a well-formed end, whose
\* cleaned query and reply have at least 2 characters
WellFormedTail(tail) == tail # <<>> /\ tail[1] = "]" /\ IsTail(Tail(tail))

Recognized(line) ==
    \/ line.fmt \in {"json", "tsjson"} /\ line.user # Absent
    \/ /\ line.fmt \in {"legacy", "google"}
       /\ line.prefix # None
       /\ WellFormedTail(line.tail)
       /\ ~TooShort(Clean(line.query), Clean(line.reply))

\* the content the template gives for the fields of the line
TemplateContent(line) ==
    IF line.fmt \in {"json", "tsjson"}
    THEN Content(Get(line.username, "unknown"), line.query, line.reply)
    ELSE Content(line.username, Clean(line.query), Clean(line.reply))

\* the tokens of the search-engine segments of a line
RECURSIVE TokensOf(_)
TokensOf(segments) ==
    IF segments = <<>> THEN {}
    ELSE {Head(segments)[i] : i \in 1..Len(Head(segments))} \cup TokensOf(Tail(segments))

SegmentText(line) == IF line.segments = <<>> THEN {} ELSE {SEPG} \cup TokensOf(line.segments)

TextTokens(text) == {text[i] : i \in 1..Len(text)}

\* the entries of the directory that name, in the message, an owner other than
\* the requester
OtherOwnersNamed(message, user) ==
    {i \in 1..Len(user_mapping) :
        /\ Contains(lower(user_mapping[i].username), lower(message))
        /\ user_mapping[i].servers # <<>>
        /\ ~Falsy(user_mapping[i].servers[1].user)
        /\ user_mapping[i].servers[1].user # user}

\* the parseable lines at or before a position have their documents stored
StoredUpTo(position) ==
    \A i \in 1..Min(position, Len(log)) :
        parse_log_line(log[i]) # NotParseable
            => Doc(parse_log_line(log[i])).id \in Ids(store)

\* C1: every document a chat request puts in the generation context belongs
\* to the owner the search was scoped to (the effective owner), whatever the
\* requester id, an absent or empty one included.
C1_ContextOwnedByEffectiveOwner ==
    chat.status = "answered" =>
        /\ chat.user_filter = chat.target_user
        /\ \A d \in chat.context_docs : d.metadata.user = chat.target_user

\* C2: a search with a given owner filter A returns no document of another
\* owner, for every store built by addOne/addBatch with mixed owners.
C2_OwnerIsolation ==
    (srch.called /\ srch.user_filter \in Owners) =>
        \A d \in srch.results : d.metadata.user = srch.user_filter

\* C2 witness: a filtered search answered with documents while the store
\* also holds a document of another owner.
C2_Witness ==
    /\ srch.called /\ srch.user_filter \in Owners
    /\ srch.results # {}
    /\ \E d \in BagToSet(store) : d.metadata.user # srch.user_filter

\* C3: once a sync run that started at position zero has read the whole log,
\* a further run from position zero (forceFull) over the same log leaves the
\* document count where the first run left it, while it runs and when it ends.
C3_ForceFullKeepsCount ==
    idem.again => get_document_count(store) = idem.count

\* C3 witness: a forceFull re-run that added documents again has finished.
C3_Witness ==
    /\ idem.again
    /\ sync.pc = "done" /\ sync.force_full /\ sync.imported > 0
    /\ idem.count > 0

\* C4: a bulk run interrupted and run again to completion ends with the store
\* and the checkpoint position of one uninterrupted run over the same log.
C4_ResumeEqualsUninterrupted ==
    bulk.pc = "completed" =>
        LET ref == uninterrupted_run(log, bulk.batch_size)
        IN /\ store = ref.store
           /\ ckpt.last_line = ref.ckpt.last_line

\* C5: the checkpoint an interrupted bulk run persists covers flushed lines
\* only: every parseable line at or before its position is in the store.
C5_InterruptKeepsFlushedPosition ==
    bulk.pc = "interrupted" => StoredUpTo(ckpt.last_line)

\* C6: in the step in which a flush fails, bulk or incremental, both persisted
\* checkpoints are what they were after the last successful flush of the run
\* (or at its start, when no flush succeeded).
C6_FailedFlushKeepsCheckpoint ==
    [][((bulk.pc # "failed" /\ bulk'.pc = "failed")
         \/ (sync.pc # "failed" /\ sync'.pc = "failed"))
        => (ckpt' = flushed.ckpt /\ sync_state' = flushed.sync_state)]_vars

\* C6 witness: a bulk flush failed after an earlier batch of the same run had
\* been flushed and checkpointed.
C6_Witness ==
    /\ bulk.pc = "failed" /\ bulk.imported > 0
    /\ ckpt.last_line > 0 /\ ckpt.last_line < bulk.current_line

\* C7: no step other than an explicit reset (--reset, /sync-logs/reset)
\* lowers a persisted checkpoint position.
C7_PositionNeverDecreases ==
    [][(ResetSyncState
         \/ \E bs \in 1..MaxBatchSize, limit \in 0..MaxLimit : BulkStart(TRUE, bs, limit))
        \/ (/\ ckpt'.last_line >= ckpt.last_line
            /\ sync_state'.last_line >= sync_state.last_line)]_vars

\* C8: a run given a limit never imports more records than the limit.
C8_LimitRespected ==
    /\ bulk.limit # 0 => bulk.imported <= bulk.limit
    /\ sync.max_entries # 0 => sync.imported <= sync.max_entries

\* C9: search asks the index for at most min(k, n) neighbours, returns at most
\* min(k, n) results, does not raise, and returns nothing from an empty store.
C9_SearchClamped ==
    srch.called =>
        /\ ~srch.raised
        /\ srch.requested <= Min(srch.k, srch.count)
        /\ Cardinality(srch.results) <= Min(srch.k, srch.count)
        /\ srch.count = 0 => (srch.results = {} /\ srch.requested = 0)

\* C9 witness: k exceeded the document count of a non-empty store and the
\* search returned every document.
C9_Witness ==
    /\ srch.called /\ ~srch.raised
    /\ srch.count > 0 /\ srch.k > srch.count
    /\ Cardinality(srch.results) = srch.count

\* C10: when the message names a directory entry of an owner other than the
\* requester, the effective owner is such an owner and the note is not empty.
C10_OtherOwnerResolved ==
    (chat.status # "none" /\ OtherOwnersNamed(chat.message, chat.user) # {}) =>
        /\ chat.target_user \in
              {user_mapping[i].servers[1].user :
                  i \in OtherOwnersNamed(chat.message, chat.user)}
        /\ chat.context_owner_note # <<>>

\* C11: the bulk parser turns every line of a recognized format into a
\* record whose content is the template over the line's own fields and whose
\* source is the ingestion tag, and every other line into NotParseable.
C11_ParseTotalAndExact ==
    parse.called =>
        IF Recognized(parse.line)
        THEN /\ parse.bulk # NotParseable
             /\ parse.bulk.content = TemplateContent(parse.line)
             /\ parse.bulk.metadata.source = "initial_sync"
        ELSE parse.bulk = NotParseable

\* C12: for a bracketed line with a search-engine segment, the query the
\* bulk parser captures holds none of the segment's text.
C12_SegmentSkipped ==
    (parse.called /\ parse.line.fmt = "google" /\ parse.bulk # NotParseable) =>
        TextTokens(parse.bulk.content[2]) \cap SegmentText(parse.line) = {}

\* C13: a line whose cleaned query or reply has fewer than 2 characters is
\* NotParseable for the bulk parser and for the incremental parser.
C13_ShortRejected ==
    (parse.called /\ TooShort(Clean(parse.line.query), Clean(parse.line.reply))) =>
        /\ parse.bulk = NotParseable
        /\ parse.sync = NotParseable

\* C17: the count add_documents_batch returns is the number of documents the
\* call inserted, for every list, repeated or already stored entries included.
C17_BatchReturnsInserted ==
    (ret.called /\ ~ret.raised) => ret.returned = ret.inserted

\* C18: add_document for a (content, timestamp) pair that a stored document
\* already has leaves the document count unchanged and returns the id of that
\* document; two requests in flight with the same pair return the same id.
C18_AddOneIdempotent ==
    /\ \A r \in Requests :
          (reqs[r].pc = "indexed" /\ reqs[r].dup) =>
              /\ reqs[r].after = reqs[r].before
              /\ \A d \in StoredTwin(store, reqs[r].rec) : d.id = reqs[r].id
    /\ \A r1, r2 \in Requests :
          (/\ reqs[r1].pc = "indexed" /\ reqs[r2].pc = "indexed"
           /\ reqs[r1].rec.content = reqs[r2].rec.content
           /\ reqs[r1].rec.metadata.timestamp = reqs[r2].rec.metadata.timestamp)
              => reqs[r1].id = reqs[r2].id

\* C18 witness: two requests with the same content and timestamp were in
\* flight together and both have been indexed; the second found its twin.
C18_Witness ==
    /\ reqs[1].pc = "indexed" /\ reqs[2].pc = "indexed"
    /\ reqs[1].rec.content = reqs[2].rec.content
    /\ reqs[1].rec.metadata.timestamp = reqs[2].rec.metadata.timestamp
    /\ reqs[1].dup \/ reqs[2].dup
    /\ get_document_count(store) = 1

\* the file is absent, unreadable, or holds something other than an object
\* with integer positions
Corrupt(content) ==
    \/ content.kind # "object"
    \/ content.last_line.type \notin {"int", "absent"}
    \/ content.imported.type \notin {"int", "absent"}

\* C19: loading a checkpoint file that is missing, unreadable or corrupt
\* yields the zero state, and the run that loaded it does not crash.
C19_CorruptLoadsZero ==
    (file.loader # "none" /\ Corrupt(file.content)) =>
        /\ file.loaded = ZeroFile
        /\ ~file.crashed

\* C20: a chat request whose search raised is still answered: generation is
\* invoked with an empty context and its text is returned.
C20_SearchFailureDegrades ==
    chat.search_raised =>
        /\ chat.status = "answered"
        /\ chat.context_docs = {}

\* the lines of a log that are in a recognized format
RecognizedLines(lg) == {i \in 1..Len(lg) : Recognized(lg[i])}

\* what a complete pass over the log has to report
Accounted(lg, imported, skipped) ==
    /\ imported = Cardinality(RecognizedLines(lg))
    /\ skipped = Len(lg) - Cardinality(RecognizedLines(lg))
    /\ get_document_count(store) = Cardinality({lg[i] : i \in RecognizedLines(lg)})

\* C14: an uninterrupted, unlimited run from the zero checkpoint into an empty
\* store ends with imported = number of recognized lines, skipped = number of
\* the other lines, document count = number of distinct recognized lines
\* (distinct lines have distinct ids), in the bulk and the incremental pipeline.
C14_LineAccounting ==
    /\ (bulk.pc = "completed" /\ bulk.fresh /\ bulk.limit = 0)
          => Accounted(log, bulk.imported, bulk.skipped)
    /\ (sync.pc = "done" /\ sync.fresh /\ sync.max_entries = 0)
          => Accounted(log, sync.imported, sync.skipped)

\* a step that takes a document out of the store
Removes == \E d \in BagToSet(store) : CopiesIn(d, store') < CopiesIn(d, store)

\* the full clear: initial_sync.py --reset
FullClear == \E bs \in 1..MaxBatchSize, limit \in 0..MaxLimit : BulkBegin(TRUE, bs, limit)

\* C15: only the full clear removes stored documents, and the step that
\* clears leaves the bulk checkpoint and the sync state both at zero.
C15_ClearResetsCheckpoints ==
    [][/\ Removes => FullClear
       /\ FullClear => (ckpt' = ZeroCheckpoint /\ sync_state' = ZeroSyncState)]_vars

\* C16: a sync run with force_full starts before the first line whatever the
\* saved position, reads line 1 first, and no step of it takes a stored
\* document away or changes one.
C16_ForceFullPreservesStore ==
    [][(sync'.force_full /\ sync'.pc \in {"loop", "flush", "rest", "done"})
         => /\ sync'.start_line = 0
            /\ sync'.pc = "loop" /\ sync.pc \notin {"loop", "flush"} => sync'.current_line = 0
            /\ sync'.processed = 1 => sync'.current_line = 1
            /\ \A d \in BagToSet(store) : CopiesIn(d, store') = CopiesIn(d, store)]_vars

\* C16 witness: a force_full run has read the whole log again although the
\* saved position was at its end and the store held its documents.
C16_Witness ==
    /\ idem.again /\ idem.count > 0
    /\ sync.force_full /\ sync.pc = "done"
    /\ sync.start_line = 0 /\ sync.processed = Len(log)
    /\ get_document_count(store) = idem.count

\* the records of the run's batch that no flush has put into the store
PendingRecords ==
    {i \in 1..Len(bulk.batch) : Doc(bulk.batch[i]).id \notin Ids(store)}

\* what a completed run leaves behind
CompletedAtEnd ==
    /\ PendingRecords = {}
    /\ ckpt.last_line = Len(log)
    /\ ckpt.completed_at # None

\* C23 as stated: a run that is not interrupted reaches Completed, and every
\* completed run has no pending record, the checkpoint at the number of lines
\* of the log, and a completion timestamp.
C23_CompletesAtEndOfLog ==
    /\ [](bulk.pc = "completed" => CompletedAtEnd)
    /\ (BulkRunning ~> bulk.pc \in {"completed", "interrupted"})

\* C23 amended: the same for the runs that did not stop at their limit.
C23_UnlimitedCompletesAtEndOfLog ==
    /\ []((bulk.pc = "completed" /\ ~bulk.brk) => CompletedAtEnd)
    /\ (BulkRunning ~> bulk.pc \in {"completed", "interrupted"})

\* C23 witness: a run with a limit it never reached has completed after
\* flushing a partial batch at end of input.
C23_Witness ==
    /\ bulk.pc = "completed" /\ ~bulk.brk /\ bulk.limit # 0
    /\ bulk.batch # <<>> /\ bulk.imported = Len(bulk.batch)
    /\ Len(log) > 0 /\ CompletedAtEnd

\* C22: in the step that ends the flush of a full batch, in the bulk and in
\* the incremental path, the persisted checkpoint position is the current
\* line position, so that it is there before the next line is read.
C22_FlushAdvancesCheckpoint ==
    [][/\ (bulk.pc = "commit" /\ bulk'.pc = "loop")
             => ckpt'.last_line = bulk'.current_line
       /\ (sync.pc = "flush" /\ sync'.pc = "loop")
             => sync_state'.last_line = sync'.current_line]_vars

\* the lines the incremental parser accepts, at or before a position, have
\* their documents stored
SyncStoredUpTo(position) ==
    \A i \in 1..Min(position, Len(log)) :
        main_parse_log_line(log[i]) # NotParseable
            => Doc(main_parse_log_line(log[i])).id \in Ids(store)

\* C28: after every run of a series of limited runs, each parseable line at
\* or before the persisted position is in the store; the bulk run that
\* reaches the end of the log leaves the store of one unlimited run.
C28_LimitedRunsLoseNoLine ==
    /\ bulk.pc = "completed" => StoredUpTo(ckpt.last_line)
    /\ sync.pc = "done" => SyncStoredUpTo(sync_state.last_line)
    /\ (bulk.pc = "completed" /\ ckpt.last_line = Len(log))
          => store = uninterrupted_run(log, bulk.batch_size).store

\* C29: the two parsers agree on every line: one rejects it exactly when the
\* other does, and two records have the same content, owner and timestamp,
\* hence the same document id.
C29_ParsersAgree ==
    parse.called =>
        /\ (parse.bulk = NotParseable) <=> (parse.sync = NotParseable)
        /\ (parse.bulk # NotParseable /\ parse.sync # NotParseable) =>
              /\ parse.bulk.content = parse.sync.content
              /\ parse.bulk.metadata.user = parse.sync.metadata.user
              /\ parse.bulk.metadata.timestamp = parse.sync.metadata.timestamp
              /\ Doc(parse.bulk).id = Doc(parse.sync).id

\* the lines a bulk run has read after its start position
LinesRead(b) == IF b.current_line > b.start_line THEN b.current_line - b.start_line ELSE 0

\* C30: between two lines of a run, lines read after the start position =
\* imported + skipped + size of the pending batch; when the run has returned,
\* the processed-line count it reports = imported + skipped.
C30_LineAccountingConserved ==
    /\ bulk.pc = "loop" => LinesRead(bulk) = bulk.imported + bulk.skipped + Len(bulk.batch)
    /\ sync.pc = "loop" => sync.current_line - sync.start_line
                              = sync.imported + sync.skipped + Len(sync.batch)
    /\ bulk.pc = "completed" => bulk.current_line = bulk.imported + bulk.skipped
    /\ sync.pc = "done" => sync.processed = sync.imported + sync.skipped

\* C24: for a message detected as a question about the conversation history
\* the search gets the generic query and a neighbour count above the ordinary
\* one; for any other message it gets the message and the ordinary count.
C24_HistoryQuestionWidensSearch ==
    chat.status # "none" =>
        IF chat.is_history_question
        THEN /\ chat.search_query = GenericQuery
             /\ chat.k_results > K_RESULTS
        ELSE /\ chat.search_query = chat.message
             /\ chat.k_results = K_RESULTS

\* C27: the note handed to the generator is non-empty exactly when the search
\* was scoped to an owner other than the requester, and then it names a
\* directory entry of that owner.
C27_NoteIffOtherOwner ==
    chat.status = "answered" =>
        /\ (chat.context_owner_note # <<>>) <=> (chat.target_user # chat.user)
        /\ chat.context_owner_note # <<>> =>
              \E i \in 1..Len(user_mapping) :
                  /\ chat.context_owner_note = <<"CATATAN">> \o user_mapping[i].username
                  /\ user_mapping[i].servers # <<>>
                  /\ user_mapping[i].servers[1].user = chat.target_user

\* the /sync-logs runs that have started and not yet saved their position
InFlight == {r \in Requests : handlers[r].pc = "await"}

\* C21: at any time at most one ingestion run over the log is in flight, so
\* that no run flushes or saves between two flushes of another.
C21_IngestionSerialized == Cardinality(InFlight) <= 1

\* C26: the sync run that starts first after /sync-logs/reset has returned
\* starts before the first line of the log, whatever was in flight.
C26_ResetRestartsAtFirstLine ==
    [][\A r \in Requests :
          (after_reset /\ handlers[r].pc = "idle" /\ handlers'[r].pc # "idle")
              => handlers'[r].start_line = 0]_vars

\* the calls that embed nothing by their kind
NonEmbeddingOps == {"init", "is_available", "get_document_count", "clear_all"}
\* the add and search calls
EmbeddingOps == {"add_document", "add_documents_batch", "search"}

\* construction, count, isAvailable and clearAll leave the provider as it is;
\* it is loaded at most once; the profile of the instance stays what the
\* construction chose, and the loaded provider is the one of that profile
LazyOnceFixed ==
    /\ rag'.last.op \in NonEmbeddingOps => rag'.embedder = rag.embedder
    /\ rag'.last.op = "init" => rag'.embedder = None
    /\ rag'.loads <= 1
    /\ rag.constructed => (rag'.fast_mode = rag.fast_mode /\ rag'.model_name = rag.model_name)
    /\ rag'.embedder # None => rag'.embedder = model_name(rag'.fast_mode)

\* C25 as stated: LazyOnceFixed, and after any add or search call the
\* provider is initialized.
C25_ProviderLazyOnFirstCall ==
    [][/\ LazyOnceFixed
       /\ rag'.last.op \in EmbeddingOps => rag'.embedder # None]_vars

\* C25 amended: LazyOnceFixed, and the provider is initialized after an add
\* of at least one document or a search of a store that holds documents,
\* while an add of no document or a search of an empty store leaves it as it is.
C25_ProviderLazyOnFirstEmbedding ==
    [][/\ LazyOnceFixed
       /\ (rag'.last.op \in EmbeddingOps /\ rag'.last.n > 0) => rag'.embedder # None
       /\ (rag'.last.op \in EmbeddingOps /\ rag'.last.n = 0)
             => rag'.embedder = rag.embedder]_vars

\* C25 witness: a search of a store that holds documents, on an instance of
\* the slow profile whose provider was loaded once, by the add before it.
C25_Witness ==
    /\ rag.constructed /\ ~rag.fast_mode
    /\ rag.last.op = "search" /\ rag.last.n > 0
    /\ rag.embedder = "BAAI/bge-m3" /\ rag.loads = 1

\* the lines of the log that record the turn of a document: same content
TurnLinesOf(rec) ==
    {i \in 1..Len(log) :
        /\ main_parse_log_line(log[i]) # NotParseable
        /\ main_parse_log_line(log[i]).content = rec.content}

\* the stored documents of the turn of a document, copies counted
StoredForTurn(rec) ==
    LET D == {d \in BagToSet(store) : d.content = rec.content}
    IN IF D = {} THEN 0
       ELSE BagCardinality([d \in D |-> CopiesIn(d, store)])

\* C31: once a turn was indexed through /log and a sync run has ingested the
\* whole log, in which one line records that turn, the store holds exactly
\* one document for the turn.
C31_TurnStoredOnce ==
    (/\ reqs[1].pc = "indexed"
     /\ sync.pc = "done" /\ sync.start_line = 0 /\ sync.current_line = Len(log)
     /\ Cardinality(TurnLinesOf(reqs[1].rec)) = 1)
        => StoredForTurn(reqs[1].rec) = 1
====
